---- MODULE Spec2Model ----
(***************************************************************************)
(* Model of the fishbone (cause-and-effect) diagram engine of              *)
(* src/streamlit_app.py: _wrap_by_chars, _tspans and fishbone_svg.         *)
(*                                                                         *)
(* A Python string is a sequence of characters; a character is a TLA+      *)
(* string naming one code point ("a", "<", " ", "U2026" for the ellipsis,  *)
(* "U0E44" for a Thai letter).  A Python value that may be None is a       *)
(* record [kind, val].  A float coordinate is a fixed-point integer of     *)
(* Scale units per pixel.                                                  *)
(***************************************************************************)
EXTENDS Integers, Sequences, FiniteSets, TLC

VARIABLES
    pc,          \* "wrap" / "build" (before the call), "done" (after it)
    text,        \* _wrap_by_chars: the text argument
    max_chars,   \* _wrap_by_chars: the max_chars argument
    max_lines,   \* _wrap_by_chars: the max_lines argument
    wrap_out,    \* _wrap_by_chars: the returned list of lines
    effect,      \* fishbone_svg: the effect argument
    categories,  \* fishbone_svg: the categories argument
    result,      \* fishbone_svg: what the call produced
    bone_vec,    \* the rib vectors: dx, dy and is_top of a bone
    rib_dir,     \* the rib vectors: what lines 855-861 make of bone_vec
    session_state, \* the entry form: st.session_state, key by key
    run,         \* the entry form: where the current script run stands
    sheet,       \* the entry form: rows append_record_to_sheet has added
    resets       \* the entry form: times the pending reset was applied

vec_vars == <<bone_vec, rib_dir>>

form_vars == <<session_state, run, sheet, resets>>

vars == <<pc, text, max_chars, max_lines, wrap_out, effect, categories, result,
          vec_vars, form_vars>>

----------------------------------------------------------------------------
(* Bounds of the checked input space.                                      *)

\* longest text handed to _wrap_by_chars on its own
MaxLen == 5
\* largest max_chars handed to _wrap_by_chars on its own
MaxChars == 3
\* largest max_lines handed to _wrap_by_chars on its own
MaxLines == 3
\* most categories in a categories argument
MaxCats == 5
\* longest items list enumerated entry by entry
MaxItems == 3
\* length of the long items lists
ManyItems == 10
\* largest dx and dy of a bone taken on its own, in hundreds of pixels
MaxDelta == 3
\* most rows saved to the sheet in one session
MaxSaves == 2

----------------------------------------------------------------------------
(* Characters and strings.                                                 *)

ELLIPSIS == "U2026"

\* the characters str.strip() removes, among those the inputs use
Whitespace == {" ", "\t", "\n", "\r"}

RECURSIVE lstrip(_)
lstrip(s) ==
    IF s # <<>> /\ Head(s) \in Whitespace THEN lstrip(Tail(s)) ELSE s

RECURSIVE rstrip(_)
rstrip(s) ==
    IF s # <<>> /\ s[Len(s)] \in Whitespace
    THEN rstrip(SubSeq(s, 1, Len(s) - 1))
    ELSE s

\* str.strip()
strip(s) == rstrip(lstrip(s))

\* Slice with the end index taken inclusively
SliceInclusive(s, a, b) ==
    IF a >= Len(s) THEN <<>>
    ELSE SubSeq(s, a + 1, IF b + 1 < Len(s) THEN b + 1 ELSE Len(s))

\* the slice s[a:b] for 0 <= a and a <= b (indices count from 0)
Slice(s, a, b) ==
    IF a >= Len(s) THEN <<>>
    ELSE SubSeq(s, a + 1, IF b < Len(s) THEN b ELSE Len(s))

RECURSIVE Concat(_)
Concat(ls) == IF ls = <<>> THEN <<>> ELSE Head(ls) \o Concat(Tail(ls))

----------------------------------------------------------------------------
(* _wrap_by_chars                                                          *)

\* the while loop: returns <<i, out>> as they stand when the loop ends
RECURSIVE WrapLoop(_, _, _, _, _)
WrapLoop(s, i, out, mc, ml) ==
    IF i < Len(s) /\ Len(out) < ml
    THEN WrapLoop(s, i + mc, Append(out, Slice(s, i, i + mc)), mc, ml)
    ELSE <<i, out>>

\* MarkLast with the marker forgotten: the final character is dropped only
MarkLastUnmarked(last) == SubSeq(last, 1, Len(last) - 1)

\* out[-1] = (out[-1][:-1] + "...") if len(out[-1]) >= 1 else "..."
MarkLast(last) ==
    IF Len(last) >= 1
    THEN SubSeq(last, 1, Len(last) - 1) \o <<ELLIPSIS>>
    ELSE <<ELLIPSIS>>

\* the lines 759-762 with the test "i <= len(s)": a text that fits
\* exactly is marked too
WrapEndInclusive(s, i, out) ==
    IF i <= Len(s) /\ out # <<>>
    THEN [out EXCEPT ![Len(out)] = MarkLast(out[Len(out)])]
    ELSE out

\* the lines 759-762, i and out being what the loop left
WrapEnd(s, i, out) ==
    IF i < Len(s) /\ out # <<>>
    THEN [out EXCEPT ![Len(out)] = MarkLast(out[Len(out)])]
    ELSE out

_wrap_by_chars(t, mc, ml) ==
    LET Wrap(s) ==
            LET End(r) == WrapEnd(s, r[1], r[2])
            IN  IF s = <<>> THEN <<>>
                ELSE End(WrapLoop(s, 0, <<>>, mc, ml))
    IN  Wrap(strip(t))

----------------------------------------------------------------------------
(* Python values: None, a str, a list; a dict key that is absent.          *)

PyNone == [kind |-> "none", val |-> <<>>]
PyMissing == [kind |-> "missing", val |-> <<>>]
PyStr(s) == [kind |-> "str", val |-> s]
PyList(l) == [kind |-> "list", val |-> l]

\* bool(v): None, "" and [] are false
Truthy(v) == v.kind \in {"str", "list"} /\ v.val # <<>>

\* str(v)
str(v) == IF v.kind = "none" THEN <<"N", "o", "n", "e">> ELSE v.val

\* c.get(key, default), the key's entry of the dict being v
Get(v, default) == IF v.kind = "missing" THEN default ELSE v

\* a or b
Or(a, b) == IF Truthy(a) THEN a ELSE b

----------------------------------------------------------------------------
(* _tspans and html.escape                                                 *)

\* EscapeChar as html.escape(s, quote=False) would do it
EscapeCharNoQuote(c) ==
    CASE c = "&"  -> <<"&", "a", "m", "p", ";">>
      [] c = "<"  -> <<"&", "l", "t", ";">>
      [] c = ">"  -> <<"&", "g", "t", ";">>
      [] OTHER    -> <<c>>

\* html.escape(c) of one character (quote=True)
EscapeChar(c) ==
    CASE c = "&"  -> <<"&", "a", "m", "p", ";">>
      [] c = "<"  -> <<"&", "l", "t", ";">>
      [] c = ">"  -> <<"&", "g", "t", ";">>
      [] c = "\"" -> <<"&", "q", "u", "o", "t", ";">>
      [] c = "'"  -> <<"&", "#", "x", "2", "7", ";">>
      [] OTHER    -> <<c>>

RECURSIVE html_escape(_)
html_escape(s) ==
    IF s = <<>> THEN <<>> ELSE EscapeChar(Head(s)) \o html_escape(Tail(s))

\* the <text> element of the lines, or nothing when there is no line
_tspans(lines, x, first_y, line_h, anchor, font_size, role, cat, item) ==
    IF lines = <<>> THEN <<>>
    ELSE << [tag       |-> "text",
             role      |-> role,
             cat       |-> cat,
             item      |-> item,
             x         |-> x,
             y         |-> first_y,
             anchor    |-> anchor,
             font_size |-> font_size,
             line_h    |-> line_h,
             tspans    |-> [i \in 1..Len(lines) |->
                               [x    |-> x,
                                dy   |-> IF i = 1 THEN 0 ELSE line_h,
                                text |-> html_escape(lines[i])]]] >>

----------------------------------------------------------------------------
(* fishbone_svg: constants of the drawing.  Lengths are in pixels here and *)
(* in fixed point (Scale units per pixel) in the emitted elements.         *)

\* fixed-point units per pixel of a float coordinate
Scale == 100
\* fixed-point units of a component of a unit vector
UnitScale == 10000

W == 2400
\* a canvas too low for the bottom row of label boxes
HTooLow == 1200 - 300
H == 1200
spine_y == 600
spine_x1 == 180
head_x == 1700
head_y == 380
head_w == 620
head_h == 440
end_dx == 300
label_w == 360
\* a label box too low for the label's baseline
LabelHShort == 52 - 20
label_h == 52
rib_len == 54
box_w == 410

\* the anchors with the sides alternating from one category to the next
AnchorsAlternating ==
    << [x |-> 820,  end_y |-> 280, top |-> TRUE],
       [x |-> 920,  end_y |-> 940, top |-> FALSE],
       [x |-> 1250, end_y |-> 280, top |-> TRUE],
       [x |-> 1350, end_y |-> 940, top |-> FALSE] >>

anchors ==
    << [x |-> 820,  end_y |-> 280, top |-> TRUE],
       [x |-> 1250, end_y |-> 280, top |-> TRUE],
       [x |-> 920,  end_y |-> 940, top |-> FALSE],
       [x |-> 1350, end_y |-> 940, top |-> FALSE] >>

\* rib positions closer to each other
RibPositionsClose == <<38, 50>>

\* rib_positions, in hundredths
rib_positions == <<38, 62>>

\* "ยังไม่มีข้อมูล"
NoDataLabel ==
    << "U0E22", "U0E31", "U0E07", "U0E44", "U0E21", "U0E48", "U0E21",
       "U0E35", "U0E02", "U0E49", "U0E2D", "U0E21", "U0E39", "U0E25" >>

\* "ไม่ระบุ"
UnspecifiedLabel ==
    << "U0E44", "U0E21", "U0E48", "U0E23", "U0E30", "U0E1A", "U0E38" >>

\* "เหตุการณ์ / ผลลัพธ์"
EffectPlaceholder ==
    << "U0E40", "U0E2B", "U0E15", "U0E38", "U0E01", "U0E32", "U0E23",
       "U0E13", "U0E4C", " ", "/", " ", "U0E1C", "U0E25", "U0E25", "U0E31",
       "U0E1E", "U0E18", "U0E4C" >>

\* "สาเหตุ"
CauseCaption == << "U0E2A", "U0E32", "U0E40", "U0E2B", "U0E15", "U0E38" >>

----------------------------------------------------------------------------
(* Arithmetic of the fixed-point coordinates.                              *)

Abs(n) == IF n < 0 THEN -n ELSE n

\* a / b rounded to the nearest integer, for b > 0
RoundDiv(a, b) ==
    IF a >= 0 THEN (2 * a + b) \div (2 * b)
    ELSE -((2 * (-a) + b) \div (2 * b))

\* the largest r in lo..hi with r * r <= n
RECURSIVE SqrtBetween(_, _, _)
SqrtBetween(n, lo, hi) ==
    IF lo >= hi THEN lo
    ELSE LET mid == (lo + hi + 1) \div 2
         IN  IF mid * mid <= n
             THEN SqrtBetween(n, mid, hi)
             ELSE SqrtBetween(n, lo, mid - 1)

\* n ** 0.5, truncated
Sqrt(n) == SqrtBetween(n, 0, 46340)

----------------------------------------------------------------------------
(* fishbone_svg                                                            *)

\* a pixel count as a fixed-point coordinate
Px(n) == n * Scale

\* raw[:4] without the cut
CapCategoriesNone(raw) == raw

\* raw = raw[:4]
CapCategories(raw) == Slice(raw, 0, 4)

\* items[:2] cut one entry later
CapItemsThree(items) == Slice(items, 0, 3)

\* items[:2]
CapItems(items) == Slice(items, 0, 2)

\* categories or [] without the placeholder category
RawCategoriesNoPlaceholder(cs) == Or(cs, PyList(<<>>)).val

\* raw = categories or []; if not raw: raw = [placeholder]
RawCategories(cs) ==
    LET raw == Or(cs, PyList(<<>>)).val
    IN  IF raw = <<>>
        THEN << [label |-> PyStr(NoDataLabel), items |-> PyList(<<>>)] >>
        ELSE raw

\* [str(x).strip() for x in xs], the blank entries kept
RECURSIVE StrippedKeepBlank(_)
StrippedKeepBlank(xs) ==
    IF xs = <<>> THEN <<>>
    ELSE <<strip(str(Head(xs)))>> \o StrippedKeepBlank(Tail(xs))

\* [str(x).strip() for x in xs if str(x).strip()]
RECURSIVE StrippedNonBlank(_)
StrippedNonBlank(xs) ==
    IF xs = <<>> THEN <<>>
    ELSE LET s == strip(str(Head(xs)))
         IN  (IF s # <<>> THEN <<s>> ELSE <<>>) \o StrippedNonBlank(Tail(xs))

\* one turn of the loop "for c in raw", the label left blank when it is
NormCategoryKeepBlank(c) ==
    LET label == strip(str(Get(c.label, PyStr(<<>>))))
        items == StrippedNonBlank(
                     Or(Get(c.items, PyList(<<>>)), PyList(<<>>)).val)
    IN  [label |-> label, items |-> CapItems(items)]

\* one turn of the loop "for c in raw", the items cut before the blank
\* ones are left out
NormCategoryCapFirst(c) ==
    LET label == Or(PyStr(strip(str(Get(c.label, PyStr(<<>>))))),
                    PyStr(UnspecifiedLabel)).val
        items == StrippedNonBlank(
                     CapItems(Or(Get(c.items, PyList(<<>>)),
                                 PyList(<<>>)).val))
    IN  [label |-> label, items |-> items]

\* one turn of the loop "for c in raw"
NormCategory(c) ==
    LET label == Or(PyStr(strip(str(Get(c.label, PyStr(<<>>))))),
                    PyStr(UnspecifiedLabel)).val
        items == StrippedNonBlank(
                     Or(Get(c.items, PyList(<<>>)), PyList(<<>>)).val)
    IN  [label |-> label, items |-> CapItems(items)]

\* the padding drawn as categories without a name
RECURSIVE PadUnspecified(_)
PadUnspecified(cats) ==
    IF Len(cats) < 4
    THEN PadUnspecified(Append(cats, [label |-> UnspecifiedLabel,
                                      items |-> <<>>]))
    ELSE cats

\* while len(cats) < 4: cats.append({"label": "", "items": []})
RECURSIVE Pad(_)
Pad(cats) ==
    IF Len(cats) < 4
    THEN Pad(Append(cats, [label |-> <<>>, items |-> <<>>]))
    ELSE cats

\* cats as the drawing loop receives it
Normalize(cs) ==
    LET raw == CapCategories(RawCategories(cs))
    IN  Pad([i \in 1..Len(raw) |-> NormCategory(raw[i])])

\* The list objects of a call.  A heap is the sequence of the lists that
\* exist, a list's address its position; address 1 is the caller's
\* categories list (empty when the argument is no list).  The dicts of a
\* list are held by value: no statement of fishbone_svg writes to one.

\* a new list object with these contents, at address Len(heap) + 1
Alloc(heap, l) == Append(heap, l)

\* list.append(x) on the list at address a
AppendAt(heap, a, x) == [heap EXCEPT ![a] = Append(@, x)]

\* raw = categories or []; if not raw: raw = [placeholder]: raw is the
\* caller's list when that is truthy, a new list otherwise
BindRaw(cs, heap) ==
    IF Truthy(cs) THEN [heap |-> heap, raw |-> 1]
    ELSE [heap |-> Alloc(Alloc(heap, <<>>), RawCategories(cs)),
          raw  |-> Len(heap) + 2]

\* del raw[4:] in the place of raw = raw[:4]: the list is cut where it is
CutRawInPlace(st) ==
    [heap |-> [st.heap EXCEPT ![st.raw] = CapCategories(@)], raw |-> st.raw]

\* raw = raw[:4]: the slice is a new list
CutRaw(st) ==
    [heap |-> Alloc(st.heap, CapCategories(st.heap[st.raw])),
     raw  |-> Len(st.heap) + 1]

\* for c in raw: cats.append({...}), from the k-th entry of raw on
RECURSIVE AppendNormalized(_, _, _, _)
AppendNormalized(heap, raw, cats, k) ==
    IF k > Len(heap[raw]) THEN heap
    ELSE AppendNormalized(AppendAt(heap, cats, NormCategory(heap[raw][k])),
                          raw, cats, k + 1)

\* while len(cats) < 4: cats.append({"label": "", "items": []})
RECURSIVE AppendPadding(_, _)
AppendPadding(heap, cats) ==
    IF Len(heap[cats]) < 4
    THEN AppendPadding(AppendAt(heap, cats, [label |-> <<>>, items |-> <<>>]),
                       cats)
    ELSE heap

\* the heap when the lines 801-815 are done; cats is its last list
HeapAfter(cs) ==
    LET Build(st) ==
            AppendPadding(
                AppendNormalized(Alloc(st.heap, <<>>), st.raw,
                                 Len(st.heap) + 1, 1),
                Len(st.heap) + 1)
    IN  Build(CutRaw(BindRaw(cs, << IF cs.kind = "list" THEN cs.val
                                    ELSE <<>> >>)))

\* the caller's categories argument as the call leaves it
CallerCategories(cs) ==
    IF cs.kind = "list" THEN PyList(HeapAfter(cs)[1]) ELSE cs

\* two pieces of the drawing put into one layer as they come
JoinOneLayer(a, b) ==
    [lines |-> a.lines \o a.texts \o b.lines \o b.texts, texts |-> <<>>]

\* the lines and the boxes and texts of two pieces of the drawing
Join(a, b) == [lines |-> a.lines \o b.lines, texts |-> a.texts \o b.texts]

\* ln = (dx ** 2 + dy ** 2) ** 0.5 or 1.0, of fixed-point dx and dy
Length(dx, dy) ==
    LET OrOne(sq) == IF sq = 0 THEN Px(1) ELSE sq
    IN  OrOne(Sqrt(dx * dx + dy * dy))

\* px, py = -uy, ux, the same for a top bone
RibDirectionNoFlip(top, ux, uy) == [px |-> -uy, py |-> ux]

\* px, py = -uy, ux; if is_top: px, py = -px, -py
RibDirection(top, ux, uy) ==
    [px |-> IF top THEN uy ELSE -uy, py |-> IF top THEN -ux ELSE ux]

\* the lines 855-861 for a bone vector dx, dy (pixels): the rib direction
\* px, py (UnitScale units), or the ZeroDivisionError of dx / ln
Vectors(dx, dy, top) ==
    LET Over(ln) ==
            LET Dir(p) == [raised |-> FALSE, dx |-> dx, dy |-> dy,
                           px |-> p.px, py |-> p.py]
            IN  IF ln = 0
                THEN [raised |-> TRUE, dx |-> dx, dy |-> dy,
                      px |-> 0, py |-> 0]
                ELSE Dir(RibDirection(top,
                                      RoundDiv(Px(dx) * UnitScale, ln),
                                      RoundDiv(Px(dy) * UnitScale, ln)))
    IN  Over(Length(Px(dx), Px(dy)))

\* the vectors of the bone of anchor a: dx, dy (pixels) and the rib
\* direction px, py (UnitScale units)
BoneVectors(a) == Vectors((a.x - end_dx) - a.x, a.end_y - spine_y, a.top)

\* the left edge kept 200 pixels off the canvas's edge
ClampLeftFar(box_x) == IF box_x < Px(200) THEN Px(200) ELSE box_x

\* if box_x < 20: box_x = 20
ClampLeft(box_x) == IF box_x < Px(20) THEN Px(20) ELSE box_x

\* the rib and the item box of item j (counted from 1) of category i
RibLayers(i, j, item) ==
    LET Draw(a, v, f, item_lines) ==
          LET From(sx, sy) ==
                LET To(ex, ey, box_h) ==
                      LET Box(box_x, box_y) ==
                            [lines |->
                                << [tag |-> "line", role |-> "rib",
                                    cat |-> i, item |-> j,
                                    x1 |-> sx, y1 |-> sy,
                                    x2 |-> ex, y2 |-> ey] >>,
                             texts |->
                                << [tag |-> "rect", role |-> "item",
                                    cat |-> i, item |-> j,
                                    x |-> box_x, y |-> box_y,
                                    width |-> Px(box_w),
                                    height |-> Px(box_h)] >>
                                \o _tspans(item_lines, box_x + Px(12),
                                           box_y + Px(22), Px(20), "start",
                                           13, "item", i, j)]
                      IN  Box(ClampLeft(ex - Px(box_w) - Px(10)),
                              IF a.top THEN ey - Px(box_h) - Px(6)
                                       ELSE ey + Px(6))
                IN  To(sx + RoundDiv(v.px * rib_len * Scale, UnitScale),
                       sy + RoundDiv(v.py * rib_len * Scale, UnitScale),
                       IF Len(item_lines) <= 1 THEN 56 ELSE 76)
          IN  From(Px(a.x) + (Px(v.dx) * f) \div 100,
                   Px(spine_y) + (Px(v.dy) * f) \div 100)
    IN  Draw(anchors[i], BoneVectors(anchors[i]), rib_positions[j],
             _wrap_by_chars(item, 34, 2))

\* the turns j..Len(items) of the loop "for j, item in enumerate(...)"
RECURSIVE RibsFrom(_, _, _)
RibsFrom(i, j, items) ==
    IF j > Len(items) THEN [lines |-> <<>>, texts |-> <<>>]
    ELSE Join(RibLayers(i, j, items[j]), RibsFrom(i, j + 1, items))

\* one turn of the loop "for i, c in enumerate(cats)", i counted from 1
CategoryLayers(i, c) ==
    LET Draw(a) ==
          LET Bone(end_x) ==
                LET Label(label_x, label_y) ==
                      [lines |->
                          << [tag |-> "line", role |-> "bone",
                              cat |-> i, item |-> 0,
                              x1 |-> Px(a.x), y1 |-> Px(spine_y),
                              x2 |-> Px(end_x), y2 |-> Px(a.end_y)] >>,
                       texts |->
                          << [tag |-> "rect", role |-> "label",
                              cat |-> i, item |-> 0,
                              x |-> Px(label_x), y |-> Px(label_y),
                              width |-> Px(label_w),
                              height |-> Px(label_h)] >>
                          \o _tspans(_wrap_by_chars(c.label, 28, 1),
                                     Px(label_x + 16), Px(label_y + 33),
                                     Px(18), "start", 17, "label", i, 0)]
                IN  Label(end_x - label_w - 14,
                          IF a.top THEN a.end_y - 72 ELSE a.end_y + 18)
          IN  Bone(a.x - end_dx)
    IN  IF c.label = <<>> THEN [lines |-> <<>>, texts |-> <<>>]
        ELSE Join(Draw(anchors[i]), RibsFrom(i, 1, CapItems(c.items)))

\* the turns i..Len(cats) of the loop "for i, c in enumerate(cats)"
RECURSIVE LayersFrom(_, _)
LayersFrom(i, cats) ==
    IF i > Len(cats) THEN [lines |-> <<>>, texts |-> <<>>]
    ELSE Join(CategoryLayers(i, cats[i]), LayersFrom(i + 1, cats))

\* effect or the placeholder, without the placeholder for a blank effect
EffectText(e) == Or(e, PyStr(EffectPlaceholder)).val

\* whether the drawing loop indexes anchors or rib_positions out of range
\* (IndexError)
Raises(cats) ==
    \E i \in 1..Len(cats) :
        /\ cats[i].label # <<>>
        /\ \/ i > Len(anchors)
           \/ Len(CapItems(cats[i].items)) > Len(rib_positions)

\* head_x + head_w / 2
HeadMiddle == Px(head_x) + Px(head_w) \div 2

\* the elements of the returned markup, in the order of the string
Markup(effect_lines, layers) ==
    << [tag |-> "rect", role |-> "background", cat |-> 0, item |-> 0,
        x |-> 0, y |-> 0, width |-> Px(W), height |-> Px(H)],
       [tag |-> "circle", role |-> "spine", cat |-> 0, item |-> 0,
        cx |-> Px(spine_x1), cy |-> Px(spine_y), r |-> Px(12)],
       [tag |-> "line", role |-> "spine", cat |-> 0, item |-> 0,
        x1 |-> Px(spine_x1), y1 |-> Px(spine_y),
        x2 |-> Px(head_x), y2 |-> Px(spine_y)] >>
    \o layers.lines
    \o << [tag |-> "rect", role |-> "head", cat |-> 0, item |-> 0,
           x |-> Px(head_x), y |-> Px(head_y),
           width |-> Px(head_w), height |-> Px(head_h)],
          [tag |-> "text", role |-> "head_title", cat |-> 0, item |-> 0,
           x |-> HeadMiddle, y |-> Px(head_y + 52),
           anchor |-> "middle", font_size |-> 22, line_h |-> 0,
           tspans |-> << [x |-> HeadMiddle, dy |-> 0,
                          text |-> EffectPlaceholder] >>] >>
    \o _tspans(effect_lines, HeadMiddle, Px(head_y + 98), Px(28), "middle",
               20, "effect", 0, 0)
    \o layers.texts
    \o << [tag |-> "text", role |-> "cause", cat |-> 0, item |-> 0,
           x |-> Px(spine_x1 - 10), y |-> Px(spine_y - 24),
           anchor |-> "middle", font_size |-> 14, line_h |-> 0,
           tspans |-> << [x |-> Px(spine_x1 - 10), dy |-> 0,
                          text |-> CauseCaption] >>] >>

\* the call: the viewBox and the elements of the markup, or the exception
fishbone_svg(e, cs) ==
    LET Draw(cats) ==
            IF Raises(cats)
            THEN [raised |-> TRUE, viewBox |-> <<>>, svg |-> <<>>]
            ELSE [raised |-> FALSE, viewBox |-> <<0, 0, W, H>>,
                  svg |-> Markup(_wrap_by_chars(EffectText(e), 26, 8),
                                 LayersFrom(1, cats))]
    IN  Draw(Normalize(cs))

----------------------------------------------------------------------------
(* The wrapper on its own: every text over WrapAlphabet up to MaxLen       *)
(* characters, every max_chars in 0..MaxChars, max_lines in 0..MaxLines.   *)

WrapAlphabet == {"a", "b", " "}

RECURSIVE StringsUpTo(_, _)
StringsUpTo(alphabet, n) ==
    IF n = 0 THEN {<<>>}
    ELSE LET shorter == StringsUpTo(alphabet, n - 1)
         IN  shorter \cup {Append(s, c) : s \in shorter, c \in alphabet}

NoResult == [raised |-> FALSE, viewBox |-> <<>>, svg |-> <<>>]

NoBone == [dx |-> 0, dy |-> 0, is_top |-> FALSE]

NoDirection == [raised |-> FALSE, dx |-> 0, dy |-> 0, px |-> 0, py |-> 0]

\* the rib vectors are not part of this run
VecUnused == bone_vec = NoBone /\ rib_dir = NoDirection

NoRun == [at |-> "none", button |-> "none", widgets |-> FALSE,
          appended |-> FALSE]

\* the entry form is not part of this run
FormUnused ==
    /\ session_state = <<>>
    /\ run = NoRun
    /\ sheet = 0
    /\ resets = 0

InitWrap ==
    /\ pc = "wrap"
    /\ text \in StringsUpTo(WrapAlphabet, MaxLen)
    /\ max_chars \in 0..MaxChars
    /\ max_lines \in 0..MaxLines
    /\ wrap_out = <<>>
    /\ effect = <<>>
    /\ categories = <<>>
    /\ result = NoResult
    /\ VecUnused
    /\ FormUnused

CallWrap ==
    /\ pc = "wrap"
    /\ wrap_out' = _wrap_by_chars(text, max_chars, max_lines)
    /\ pc' = "done"
    /\ UNCHANGED <<text, max_chars, max_lines, effect, categories, result,
                   vec_vars, form_vars>>

NextWrap == CallWrap

SpecWrap == InitWrap /\ [][NextWrap]_vars

----------------------------------------------------------------------------
(* The diagram builder: one call of fishbone_svg on an input drawn from    *)
(* Inputs.                                                                 *)

\* the character c, n times
Rep(c, n) == [k \in 1..n |-> c]

RECURSIVE SeqsUpTo(_, _)
SeqsUpTo(S, n) ==
    IF n = 0 THEN {<<>>}
    ELSE LET shorter == SeqsUpTo(S, n - 1)
         IN  shorter \cup {Append(s, x) : s \in shorter, x \in S}

ShortText == <<" ", "a", "<", "b", "&", "\"", "'", ">", " ">>

\* effects: missing, empty, blank, short, two lines, over eight lines
EffectPool ==
    { PyNone, PyStr(<<>>), PyStr(<<" ", "\t">>), PyStr(ShortText),
      PyStr(Rep("<", 27)), PyStr(Rep("&", 8 * 26 + 1)) }

\* labels: no key, None, empty, blank, short, cut to one line
LabelPool ==
    { PyMissing, PyNone, PyStr(<<>>), PyStr(<<" ", " ">>), PyStr(ShortText),
      PyStr(Rep("'", 29)) }

\* items: None, empty, blank, short, two lines, cut to two lines
ItemPool ==
    { PyNone, PyStr(<<>>), PyStr(<<"\n", " ">>), PyStr(ShortText),
      PyStr(Rep("<", 35)), PyStr(Rep("&", 70)) }

\* a list of ManyItems items: the first b are blank, the others are not
BlankThenFull(b) ==
    PyList([k \in 1..ManyItems |->
               IF k <= b THEN PyStr(<<" ">>) ELSE PyStr(<<"a", "b">>)])

\* items lists: no key, None, every list of up to MaxItems items of
\* ItemPool, and the lists of ManyItems items
ItemsPool ==
    {PyMissing, PyNone}
        \cup {PyList(s) : s \in SeqsUpTo(ItemPool, MaxItems)}
        \cup {BlankThenFull(b) : b \in 0..ManyItems}

\* a category with a short label and nothing under it
PlainCat == [label |-> PyStr(<<"a", "b">>), items |-> PyList(<<>>)]

\* a category at full load: a label that is cut, two items of two lines
FullCat ==
    [label |-> PyStr(Rep("'", 29)),
     items |-> PyList(<<PyStr(Rep("&", 70)), PyStr(Rep("<", 35))>>)]

\* a category with a blank label and one short item
BlankLabelCat ==
    [label |-> PyStr(<<" ">>), items |-> PyList(<<PyStr(ShortText)>>)]

BasicCats == {PlainCat, FullCat, BlankLabelCat}

\* every label over a fixed items list, every items list under a fixed label
RichCats ==
    {[label |-> l, items |-> PyList(<<PyStr(ShortText)>>)] : l \in LabelPool}
        \cup {[label |-> PyStr(<<"a", "b">>), items |-> it] : it \in ItemsPool}

\* the inputs: every effect with every list of up to MaxCats basic
\* categories (or with None), and every rich category at every position
\* among plain ones
Inputs ==
    {[effect |-> e, categories |-> PyList(cs)] :
        e \in EffectPool, cs \in SeqsUpTo(BasicCats, MaxCats)}
    \cup {[effect |-> e, categories |-> PyNone] : e \in EffectPool}
    \cup {[effect |-> PyStr(<<"e">>),
           categories |-> PyList([k \in 1..w[1] |->
                                     IF k = w[2] THEN c ELSE PlainCat])] :
             w \in {v \in (1..MaxCats) \X (1..MaxCats) : v[2] <= v[1]},
             c \in RichCats}

Init ==
    /\ pc = "build"
    /\ \E inp \in Inputs :
           /\ effect = inp.effect
           /\ categories = inp.categories
    /\ result = NoResult
    /\ text = <<>>
    /\ max_chars = 0
    /\ max_lines = 0
    /\ wrap_out = <<>>
    /\ VecUnused
    /\ FormUnused

CallFishbone ==
    /\ pc = "build"
    /\ result' = fishbone_svg(effect, categories)
    /\ categories' = CallerCategories(categories)
    /\ pc' = "done"
    /\ UNCHANGED <<effect, text, max_chars, max_lines, wrap_out, vec_vars,
                   form_vars>>

Next == CallFishbone

Spec == Init /\ [][Next]_vars

----------------------------------------------------------------------------
(* The rib vectors on their own: the lines 855-861 on every bone vector of *)
(* up to MaxDelta hundreds of pixels each way, the zero vector included.   *)

InitVectors ==
    /\ pc = "vectors"
    /\ bone_vec \in [dx : {k * 100 : k \in (-MaxDelta)..MaxDelta},
                      dy : {k * 100 : k \in (-MaxDelta)..MaxDelta},
                      is_top : BOOLEAN]
    /\ rib_dir = NoDirection
    /\ text = <<>>
    /\ max_chars = 0
    /\ max_lines = 0
    /\ wrap_out = <<>>
    /\ effect = <<>>
    /\ categories = <<>>
    /\ result = NoResult
    /\ FormUnused

CallVectors ==
    /\ pc = "vectors"
    /\ rib_dir' = Vectors(bone_vec.dx, bone_vec.dy, bone_vec.is_top)
    /\ pc' = "done"
    /\ UNCHANGED <<bone_vec, text, max_chars, max_lines, wrap_out, effect,
                   categories, result, form_vars>>

NextVectors == CallVectors

SpecVectors == InitVectors /\ [][NextVectors]_vars

----------------------------------------------------------------------------
(* The entry form: render_entry_tab over a session of script runs.  A run  *)
(* is split at the calls that can raise and at the creation of the         *)
(* widgets; between two runs the user changes the widgets or presses a     *)
(* button, and that starts the next run.                                   *)

PyTrue == [kind |-> "true", val |-> <<>>]
PyFalse == [kind |-> "false", val |-> <<>>]
PyDate(d) == [kind |-> "date", val |-> d]
PyTime(t) == [kind |-> "time", val |-> t]
PyDict(d) == [kind |-> "dict", val |-> d]
PyFile(f) == [kind |-> "file", val |-> f]

\* date.today() and datetime.now().time(), the clock standing still
Today == PyDate(<<"today">>)
TimeNow == PyTime(<<"now">>)

\* the four process steps, named by their number
PROCESS_OPTIONS == <<PyStr(<<"1">>), PyStr(<<"2">>), PyStr(<<"3">>),
                     PyStr(<<"4">>)>>

SavedMessage == PyStr(<<"s", "a", "v", "e", "d">>)

\* the keys of the widgets that take a default
FormKeys ==
    {"form_event_date", "form_event_time", "form_process_step",
     "form_drug_name", "form_severity", "form_incident_detail",
     "form_timeline_text", "form_initial_correction", "form_rca_text",
     "form_development_plan"}

ResultKeys == {"rca_analysis_json", "rca_plan_json"}

Keys ==
    FormKeys \cup ResultKeys \cup
    {"form_rca_image", "show_fishbone_preview", "_reset_form_after_save",
     "_save_success_message"}

\* the dict defaults of init_form_state_defaults
FormDefaults ==
    [k \in FormKeys \cup ResultKeys |->
        CASE k = "form_event_date" -> Today
          [] k = "form_event_time" -> TimeNow
          [] k = "form_process_step" -> PROCESS_OPTIONS[1]
          [] k = "form_severity" -> PyStr(<<"A">>)
          [] k \in ResultKeys -> PyNone
          [] OTHER -> PyStr(<<>>)]

init_form_state_defaults(ss) ==
    [k \in Keys |->
        IF k \in DOMAIN FormDefaults /\ ss[k] = PyMissing
        THEN FormDefaults[k]
        ELSE ss[k]]

validate_required_form(ss) ==
    LET drug == IF strip(Get(ss["form_drug_name"], PyStr(<<>>)).val) = <<>>
                THEN <<"drug">> ELSE <<>>
        detail == IF strip(Get(ss["form_incident_detail"],
                               PyStr(<<>>)).val) = <<>>
                  THEN <<"detail">> ELSE <<>>
        errs == drug \o detail
    IN  [ok |-> Len(errs) = 0, errs |-> errs]

request_form_reset_after_save(ss) ==
    [ss EXCEPT !["_reset_form_after_save"] = PyTrue,
               !["_save_success_message"] = SavedMessage]

\* the test of line 1213
PendingReset(ss) == Get(ss["_reset_form_after_save"], PyFalse) = PyTrue

\* apply_pending_form_reset without its last line: the flag stays set
ApplyResetKeepFlag(ss) ==
    IF PendingReset(ss)
    THEN [k \in Keys |->
            CASE k \in FormKeys \cup ResultKeys -> FormDefaults[k]
              [] k = "show_fishbone_preview" -> PyFalse
              [] k = "form_rca_image" -> PyMissing
              [] OTHER -> ss[k]]
    ELSE ss

apply_pending_form_reset(ss) ==
    IF PendingReset(ss)
    THEN [k \in Keys |->
            CASE k \in {"form_drug_name", "form_incident_detail",
                        "form_timeline_text", "form_initial_correction",
                        "form_rca_text", "form_development_plan"} ->
                     PyStr(<<>>)
              [] k = "form_process_step" -> PROCESS_OPTIONS[1]
              [] k = "form_severity" -> PyStr(<<"A">>)
              [] k = "form_event_date" -> Today
              [] k = "form_event_time" -> TimeNow
              [] k \in ResultKeys -> PyNone
              [] k = "show_fishbone_preview" -> PyFalse
              [] k = "form_rca_image" -> PyMissing
              [] k = "_reset_form_after_save" -> PyFalse
              [] OTHER -> ss[k]]
    ELSE ss

\* lines 1238-1239: the success message is shown once and popped
PopSuccessMessage(ss) ==
    IF Truthy(Get(ss["_save_success_message"], PyNone))
    THEN [ss EXCEPT !["_save_success_message"] = PyMissing]
    ELSE ss

\* lines 1250-1273: a widget whose key is not in the session state enters
\* it with its own default; only the file uploader can be in that case
Widgets(ss) ==
    [ss EXCEPT !["form_rca_image"] = IF @ = PyMissing THEN PyNone ELSE @]

\* what the user can make of the form between two runs: a form with a
\* drug name and a blank detail, a complete form, a complete form with an
\* image attached
Fillings ==
    LET complete ==
            [k \in FormKeys \cup {"form_rca_image"} |->
                CASE k = "form_event_date" -> PyDate(<<"earlier">>)
                  [] k = "form_event_time" -> PyTime(<<"earlier">>)
                  [] k = "form_process_step" -> PROCESS_OPTIONS[2]
                  [] k = "form_severity" -> PyStr(<<"B">>)
                  [] k = "form_rca_image" -> PyNone
                  [] OTHER -> PyStr(<<"x">>)]
    IN  {[complete EXCEPT !["form_incident_detail"] = PyStr(<<" ">>)],
         complete,
         [complete EXCEPT !["form_rca_image"] = PyFile(<<"png">>)]}

\* the widgets as the user left them
Fill(ss, f) == [k \in Keys |-> IF k \in DOMAIN f THEN f[k] ELSE ss[k]]

\* a script run about to start, button being the button pressed
NewRun(button) ==
    [at |-> "start", button |-> button, widgets |-> FALSE,
     appended |-> FALSE]

OnlyForm ==
    /\ pc = "form"
    /\ text = <<>>
    /\ max_chars = 0
    /\ max_lines = 0
    /\ wrap_out = <<>>
    /\ effect = <<>>
    /\ categories = <<>>
    /\ result = NoResult
    /\ VecUnused

\* the first run of a session: ensure_auth_state has set the preview flag
InitForm ==
    /\ OnlyForm
    /\ session_state =
           [k \in Keys |->
               IF k = "show_fishbone_preview" THEN PyFalse ELSE PyMissing]
    /\ run = NewRun("none")
    /\ sheet = 0
    /\ resets = 0

NotForm == <<pc, text, max_chars, max_lines, wrap_out, effect, categories,
             result, vec_vars>>

\* the user changes the widgets
Interact ==
    /\ run.at = "idle"
    /\ \E f \in Fillings : session_state' = Fill(session_state, f)
    /\ run' = NewRun("none")
    /\ UNCHANGED <<sheet, resets, NotForm>>

\* the user presses the save button
PressSave ==
    /\ run.at = "idle"
    /\ sheet < MaxSaves
    /\ run' = NewRun("save")
    /\ UNCHANGED <<session_state, sheet, resets, NotForm>>

\* the user presses the RCA Assistant button
PressAssistant ==
    /\ run.at = "idle"
    /\ run' = NewRun("assistant")
    /\ UNCHANGED <<session_state, sheet, resets, NotForm>>

\* lines 1235-1239
BeginRun ==
    /\ run.at = "start"
    /\ LET ss == init_form_state_defaults(session_state)
       IN  /\ session_state' = PopSuccessMessage(apply_pending_form_reset(ss))
           /\ resets' = IF PendingReset(ss) THEN resets + 1 ELSE resets
    /\ run' = [run EXCEPT !.at = "widgets"]
    /\ UNCHANGED <<sheet, NotForm>>

\* lines 1250-1283
CreateWidgets ==
    /\ run.at = "widgets"
    /\ session_state' = Widgets(session_state)
    /\ run' = [run EXCEPT !.at = "save", !.widgets = TRUE]
    /\ UNCHANGED <<sheet, resets, NotForm>>

\* lines 1301-1305
SaveButton ==
    /\ run.at = "save"
    /\ run' = [run EXCEPT !.at =
                   IF run.button = "save"
                      /\ validate_required_form(session_state).ok
                   THEN "record"
                   ELSE "assistant"]
    /\ UNCHANGED <<session_state, sheet, resets, NotForm>>

\* lines 1307-1319: the upload to the drive returns or raises
CreateAndUpload ==
    /\ run.at = "record"
    /\ \/ run' = [run EXCEPT !.at = "append"]
       \/ /\ session_state["form_rca_image"] # PyNone
          /\ run' = [run EXCEPT !.at = "assistant"]
    /\ UNCHANGED <<session_state, sheet, resets, NotForm>>

\* line 1322: append_record_to_sheet returns or raises
AppendRecord ==
    /\ run.at = "append"
    /\ \/ /\ sheet' = sheet + 1
          /\ run' = [run EXCEPT !.at = "request", !.appended = TRUE]
       \/ /\ run' = [run EXCEPT !.at = "assistant"]
          /\ UNCHANGED sheet
    /\ UNCHANGED <<session_state, resets, NotForm>>

\* lines 1324-1330
RequestReset ==
    /\ run.at = "request"
    /\ session_state' = request_form_reset_after_save(session_state)
    /\ run' = [run EXCEPT !.at = "rerun"]
    /\ UNCHANGED <<sheet, resets, NotForm>>

\* line 1331: st.rerun() ends the run with an exception that the handler
\* of line 1333 does not catch, and the next run starts
Rerun ==
    /\ run.at = "rerun"
    /\ run' = NewRun("none")
    /\ UNCHANGED <<session_state, sheet, resets, NotForm>>

\* lines 1346-1368: the two calls of the model return or one raises; the
\* run ends
Assistant ==
    /\ run.at = "assistant"
    /\ \/ /\ run.button = "assistant"
          /\ strip(Get(session_state["form_incident_detail"],
                       PyStr(<<>>)).val) # <<>>
          /\ session_state' =
                 [session_state EXCEPT
                     !["rca_analysis_json"] = PyDict(<<"analysis">>),
                     !["rca_plan_json"] = PyDict(<<"plan">>)]
       \/ UNCHANGED session_state
    /\ run' = [run EXCEPT !.at = "idle"]
    /\ UNCHANGED <<sheet, resets, NotForm>>

NextForm ==
    \/ Interact
    \/ PressSave
    \/ PressAssistant
    \/ BeginRun
    \/ CreateWidgets
    \/ SaveButton
    \/ CreateAndUpload
    \/ AppendRecord
    \/ RequestReset
    \/ Rerun
    \/ Assistant

SpecForm == InitForm /\ [][NextForm]_vars

----------------------------------------------------------------------------
(* Properties of _wrap_by_chars, checked under SpecWrap.                   *)

Last(ls) == ls[Len(ls)]

\* C1: for every string and every max_chars >= 0 and max_lines >= 0 the
\* result has at most max_lines lines, each of at most max_chars characters.
C1_WrapBound ==
    pc = "done" =>
        /\ Len(wrap_out) <= max_lines
        /\ \A k \in 1..Len(wrap_out) : Len(wrap_out[k]) <= max_chars

\* C2 as stated: if the text as passed in is longer than
\* max_chars * max_lines, the result has a last line and it ends with the
\* ellipsis marker.
C2_MarkerOnRawLength ==
    (pc = "done" /\ Len(text) > max_chars * max_lines) =>
        /\ wrap_out # <<>>
        /\ Last(wrap_out) # <<>>
        /\ Last(Last(wrap_out)) = ELLIPSIS

\* C2 amended: if max_lines >= 1 and the trimmed text is longer than
\* max_chars * max_lines, the result has a last line and it ends with the
\* ellipsis marker.
C2_MarkerOnTrimmedLength ==
    (pc = "done" /\ max_lines >= 1
        /\ Len(strip(text)) > max_chars * max_lines) =>
        /\ wrap_out # <<>>
        /\ Last(wrap_out) # <<>>
        /\ Last(Last(wrap_out)) = ELLIPSIS

\* a text with blanks around it whose trimmed part is cut over two lines
C2_Witness ==
    /\ pc = "done"
    /\ max_chars = 1
    /\ max_lines = 2
    /\ text # strip(text)
    /\ Len(strip(text)) > max_chars * max_lines
    /\ Len(wrap_out) = 2

\* the slice of the trimmed text that line k (counted from 1) is cut from
Chunk(k) ==
    LET s == strip(text)
    IN  SubSeq(s, (k - 1) * max_chars + 1,
               IF k * max_chars < Len(s) THEN k * max_chars ELSE Len(s))

\* C3 as stated: for max_chars >= 1 and max_lines >= 1 the result is empty
\* exactly when the trimmed text is; every line is its slice of the trimmed
\* text; every line but the last has max_chars characters; a trimmed text
\* of at most max_chars * max_lines characters is the lines' concatenation.
C3_EveryLineIsItsSlice ==
    (pc = "done" /\ max_chars >= 1 /\ max_lines >= 1) =>
        /\ (wrap_out = <<>>) <=> (strip(text) = <<>>)
        /\ \A k \in 1..Len(wrap_out) : wrap_out[k] = Chunk(k)
        /\ \A k \in 1..(Len(wrap_out) - 1) : Len(wrap_out[k]) = max_chars
        /\ Len(strip(text)) <= max_chars * max_lines
               => Concat(wrap_out) = strip(text)

\* C3 amended: as C3, except that when the trimmed text is longer than
\* max_chars * max_lines the last line is its slice with the final
\* character replaced by the ellipsis marker.
C3_SlicesUpToTruncation ==
    (pc = "done" /\ max_chars >= 1 /\ max_lines >= 1) =>
        LET s   == strip(text)
            n   == Len(wrap_out)
            cut == Len(s) > max_chars * max_lines
        IN  /\ (wrap_out = <<>>) <=> (s = <<>>)
            /\ \A k \in 1..n :
                   IF cut /\ k = n
                   THEN wrap_out[k] = SubSeq(Chunk(k), 1, Len(Chunk(k)) - 1)
                                          \o <<ELLIPSIS>>
                   ELSE wrap_out[k] = Chunk(k)
            /\ \A k \in 1..(n - 1) : Len(wrap_out[k]) = max_chars
            /\ ~cut => Concat(wrap_out) = s

\* a padded text that fits and is cut into a full line and a shorter one
C3_Witness ==
    /\ pc = "done"
    /\ max_chars = 2
    /\ max_lines = 2
    /\ text # strip(text)
    /\ Len(strip(text)) = 3
    /\ Len(wrap_out) = 2
    /\ Concat(wrap_out) = strip(text)

\* C24: for max_chars >= 1 and max_lines >= 1 a line differs from its
\* slice of the trimmed text exactly when that text is longer than
\* max_chars * max_lines; then only the last line differs: it has the
\* length of its slice, the slice's characters but the final one, and the
\* ellipsis marker in its place (the marker alone for a slice of one
\* character); a trimmed text of exactly max_chars * max_lines characters
\* comes back whole and without a marker.
C24_MarkerIffCut ==
    (pc = "done" /\ max_chars >= 1 /\ max_lines >= 1) =>
        LET s   == strip(text)
            n   == Len(wrap_out)
            cut == Len(s) > max_chars * max_lines
        IN  /\ (\E k \in 1..n : wrap_out[k] # Chunk(k)) <=> cut
            /\ \A k \in 1..(n - 1) : wrap_out[k] = Chunk(k)
            /\ cut =>
                   /\ n = max_lines
                   /\ Len(wrap_out[n]) = Len(Chunk(n))
                   /\ Len(wrap_out[n]) = max_chars
                   /\ wrap_out[n][Len(wrap_out[n])] = ELLIPSIS
                   /\ \A c \in 1..(Len(wrap_out[n]) - 1) :
                          wrap_out[n][c] = Chunk(n)[c]
                   /\ Len(Chunk(n)) = 1 => wrap_out[n] = <<ELLIPSIS>>
            /\ Len(s) = max_chars * max_lines =>
                   /\ n = max_lines
                   /\ Concat(wrap_out) = s
                   /\ \A k \in 1..n : \A c \in DOMAIN wrap_out[k] :
                          wrap_out[k][c] # ELLIPSIS

\* a padded text whose trimmed part fills 2 lines of 2 characters exactly
C24_Witness ==
    /\ pc = "done"
    /\ max_chars = 2
    /\ max_lines = 2
    /\ text # strip(text)
    /\ Len(strip(text)) = max_chars * max_lines
    /\ Len(wrap_out) = 2
    /\ wrap_out[2] = Chunk(2)

----------------------------------------------------------------------------
(* Properties of the rib vectors, checked under SpecVectors.               *)

----------------------------------------------------------------------------
(* Properties of fishbone_svg, checked under Spec.                         *)

\* the positions of the markup that hold an element of this tag and role
Where(tag, role) ==
    {k \in DOMAIN result.svg :
        result.svg[k].tag = tag /\ result.svg[k].role = role}

\* the same, among the elements of category i
WhereOf(tag, role, i) == {k \in Where(tag, role) : result.svg[k].cat = i}

\* the categories list as passed in ([] for a missing one)
GivenCats == IF categories.kind = "list" THEN categories.val ELSE <<>>

\* the items list of a given category ([] for a missing or None one)
GivenItems(c) == IF c.items.kind = "list" THEN c.items.val ELSE <<>>

\* the entries of an items list that are not blank once coerced and trimmed
NonBlank(items) ==
    {j \in DOMAIN items :
        \E n \in DOMAIN str(items[j]) : str(items[j])[n] \notin Whitespace}

\* C4 as stated: at most 4 bones, at most 2 ribs per category, no failure,
\* and a (drawn) category with 10 items has exactly 2 ribs.
C4_TenItemsTwoRibs ==
    pc = "done" =>
        /\ ~result.raised
        /\ Cardinality(Where("line", "bone")) <= 4
        /\ \A i \in 1..4 : Cardinality(WhereOf("line", "rib", i)) <= 2
        /\ \A k \in DOMAIN GivenCats :
               (k <= 4 /\ Len(GivenItems(GivenCats[k])) = 10)
                   => Cardinality(WhereOf("line", "rib", k)) = 2

\* C4 amended: at most 4 bones, at most 2 ribs per category, no failure,
\* and a category among the first 4 that has 10 (or more) items, at least
\* 2 of them not blank, has exactly 2 ribs.
C4_Capacity ==
    pc = "done" =>
        /\ ~result.raised
        /\ Cardinality(Where("line", "bone")) <= 4
        /\ \A i \in 1..4 : Cardinality(WhereOf("line", "rib", i)) <= 2
        /\ \A k \in DOMAIN GivenCats :
               (/\ k <= 4
                /\ Len(GivenItems(GivenCats[k])) >= 10
                /\ Cardinality(NonBlank(GivenItems(GivenCats[k]))) >= 2)
                   => Cardinality(WhereOf("line", "rib", k)) = 2

\* a category of 10 or more items, some of them blank, drawn with 2 ribs
C4_Witness ==
    /\ pc = "done"
    /\ \E k \in DOMAIN GivenCats :
           LET items == GivenItems(GivenCats[k])
           IN  /\ Len(items) >= 10
               /\ Cardinality(NonBlank(items)) \in 2..(Len(items) - 1)
               /\ Cardinality(WhereOf("line", "rib", k)) = 2

Entities ==
    { <<"&", "a", "m", "p", ";">>, <<"&", "l", "t", ";">>,
      <<"&", "g", "t", ";">>, <<"&", "q", "u", "o", "t", ";">>,
      <<"&", "#", "x", "2", "7", ";">> }

\* whether s starts with p
StartsWith(s, p) == Len(s) >= Len(p) /\ SubSeq(s, 1, Len(p)) = p

\* the number of raw characters escaped text stands for, or -1 when it
\* holds a raw <, >, ", ' or an & that starts no entity
RECURSIVE RawLength(_)
RawLength(s) ==
    IF s = <<>> THEN 0
    ELSE LET rest ==
                 IF Head(s) = "&"
                 THEN IF \E p \in Entities : StartsWith(s, p)
                      THEN SubSeq(s, Len(CHOOSE p \in Entities :
                                             StartsWith(s, p)) + 1, Len(s))
                      ELSE <<"<">>
                 ELSE IF Head(s) \in {"<", ">", "\"", "'"} THEN <<"<">>
                 ELSE Tail(s)
             n == RawLength(rest)
         IN  IF rest = <<"<">> \/ n < 0 THEN -1 ELSE n + 1

\* the most raw characters a line of a text of this role may have (the
\* two fixed captions are no longer than the head's title)
LineLimit(role) ==
    CASE role = "label"  -> 28
      [] role = "item"   -> 34
      [] role = "effect" -> 26
      [] OTHER           -> Len(EffectPlaceholder)

\* C5: every text line of the markup holds escaped text only (no raw <, >,
\* ", ' and no & outside an entity), and it stands for at most the line
\* limit of raw characters: lines are cut first and escaped afterwards.
C5_Escaped ==
    pc = "done" =>
        \A k \in {n \in DOMAIN result.svg : result.svg[n].tag = "text"} :
            \A n \in DOMAIN result.svg[k].tspans :
                LET raw == RawLength(result.svg[k].tspans[n].text)
                IN  raw >= 0 /\ raw <= LineLimit(result.svg[k].role)

\* a text whose lines hold entities and are longer escaped than the limit
C5_Witness ==
    /\ pc = "done"
    /\ \E k \in Where("text", "item") :
           /\ Len(result.svg[k].tspans) = 2
           /\ Len(result.svg[k].tspans[1].text) > 34
    /\ \E k \in Where("text", "label") :
           \E n \in DOMAIN result.svg[k].tspans[1].text :
               result.svg[k].tspans[1].text[n] = "&"
    /\ \E k \in Where("text", "effect") :
           \E n \in DOMAIN result.svg[k].tspans[1].text :
               result.svg[k].tspans[1].text[n] = "&"

\* C7: the call never raises, returns markup, and declares the canvas
\* 2400 x 1200 in the viewBox and in the background rectangle.
C7_NoCrash ==
    pc = "done" =>
        /\ ~result.raised
        /\ result.viewBox = <<0, 0, 2400, 1200>>
        /\ Cardinality(Where("rect", "background")) = 1
        /\ \A k \in Where("rect", "background") :
               /\ k = 1
               /\ result.svg[k].x = 0
               /\ result.svg[k].y = 0
               /\ result.svg[k].width = 2400 * Scale
               /\ result.svg[k].height = 1200 * Scale

\* more categories than the capacity, one of them without a label key
C7_Witness ==
    /\ pc = "done"
    /\ ~result.raised
    /\ Len(GivenCats) > 4
    /\ \E k \in DOMAIN GivenCats : GivenCats[k].label.kind = "missing"
    /\ Cardinality(Where("line", "bone")) = 4

\* C8: with a missing or empty categories argument the markup has exactly
\* one bone and one label box, both of anchor 0, the label being the
\* placeholder, and no rib and no item box.
C8_PlaceholderCategory ==
    (pc = "done" /\ GivenCats = <<>>) =>
        /\ Cardinality(Where("line", "bone")) = 1
        /\ Cardinality(Where("rect", "label")) = 1
        /\ Cardinality(Where("text", "label")) = 1
        /\ \A k \in Where("line", "bone") :
               /\ result.svg[k].cat = 1
               /\ result.svg[k].x1 = 820 * Scale
               /\ result.svg[k].y1 = 600 * Scale
               /\ result.svg[k].x2 = 520 * Scale
               /\ result.svg[k].y2 = 280 * Scale
        /\ \A k \in Where("rect", "label") : result.svg[k].cat = 1
        /\ \A k \in Where("text", "label") :
               /\ result.svg[k].cat = 1
               /\ Len(result.svg[k].tspans) = 1
               /\ result.svg[k].tspans[1].text = NoDataLabel
        /\ Where("line", "rib") = {}
        /\ Where("rect", "item") = {}
        /\ Where("text", "item") = {}

\* a call without categories that drew the placeholder bone
C8_Witness ==
    /\ pc = "done"
    /\ categories = PyNone
    /\ Cardinality(Where("line", "bone")) = 1

\* the raw text of the effect lines of the head: the lines of the text e
EffectLinesAre(e) ==
    /\ Cardinality(Where("text", "effect")) = 1
    /\ \A k \in Where("text", "effect") :
           /\ Len(result.svg[k].tspans) >= 1
           /\ [n \in DOMAIN result.svg[k].tspans |->
                  result.svg[k].tspans[n].text]
                  = [n \in 1..Len(_wrap_by_chars(e, 26, 8)) |->
                        html_escape(_wrap_by_chars(e, 26, 8)[n])]

\* C9: a missing, empty or blank effect puts the wrapped placeholder in
\* the head, any other effect its own wrapped text; the head always holds
\* at least one line of effect text.
C9_EffectOrPlaceholder ==
    pc = "done" =>
        IF effect.kind = "none" \/ strip(effect.val) = <<>>
        THEN EffectLinesAre(EffectPlaceholder)
        ELSE EffectLinesAre(effect.val)

\* the corners and points of the element at position k
Points(k) ==
    LET e == result.svg[k]
    IN  CASE e.tag = "line"   -> {<<e.x1, e.y1>>, <<e.x2, e.y2>>}
          [] e.tag = "rect"   -> {<<e.x, e.y>>, <<e.x + e.width, e.y>>,
                                  <<e.x, e.y + e.height>>,
                                  <<e.x + e.width, e.y + e.height>>}
          [] e.tag = "circle" -> {<<e.cx, e.cy>>}
          [] e.tag = "text"   -> {<<e.x, e.y>>}

\* C10: the canvas is 2400 x 1200 and both ends of every line, the four
\* corners of every box and every text anchor point lie inside it.
C10_InsideCanvas ==
    pc = "done" =>
        /\ ~result.raised
        /\ \A k \in DOMAIN result.svg :
               \A p \in Points(k) :
                   /\ 0 <= p[1] /\ p[1] <= 2400 * Scale /\ p[1] <= W * Scale
                   /\ 0 <= p[2] /\ p[2] <= 1200 * Scale /\ p[2] <= H * Scale

\* the full load: 4 bones, 8 ribs, 8 item boxes
C10_Witness ==
    /\ pc = "done"
    /\ Cardinality(Where("line", "bone")) = 4
    /\ Cardinality(Where("line", "rib")) = 8
    /\ Cardinality(Where("rect", "item")) = 8

Min(a, b) == IF a < b THEN a ELSE b

Max(a, b) == IF a > b THEN a ELSE b

\* C11: a call with n >= 1 categories draws exactly min(n, 4) bones, one
\* bone and one label box for each of the first min(n, 4) categories, and
\* min(m, 2) ribs for a category with m items that are not blank; nothing
\* is drawn for the padding entries.
C11_ExactCounts ==
    (pc = "done" /\ Len(GivenCats) >= 1) =>
        LET n == Min(Len(GivenCats), 4)
        IN  /\ Cardinality(Where("line", "bone")) = n
            /\ Cardinality(Where("rect", "label")) = n
            /\ \A i \in 1..n :
                   /\ Cardinality(WhereOf("line", "bone", i)) = 1
                   /\ Cardinality(WhereOf("rect", "label", i)) = 1
                   /\ Cardinality(WhereOf("text", "label", i)) = 1
                   /\ Cardinality(WhereOf("line", "rib", i))
                          = Min(Cardinality(NonBlank(GivenItems(GivenCats[i]))),
                                2)
            /\ \A k \in DOMAIN result.svg : result.svg[k].cat <= n

\* two categories with 2 and 1 items: 2 bones, 2 ribs and 1 rib
C11_Witness ==
    /\ pc = "done"
    /\ Len(GivenCats) = 2
    /\ Cardinality(NonBlank(GivenItems(GivenCats[1]))) = 2
    /\ Cardinality(NonBlank(GivenItems(GivenCats[2]))) = 1
    /\ Len(GivenItems(GivenCats[1])) = 2
    /\ Len(GivenItems(GivenCats[2])) = 1
    /\ Cardinality(Where("line", "bone")) = 2
    /\ Cardinality(WhereOf("line", "rib", 1)) = 2
    /\ Cardinality(WhereOf("line", "rib", 2)) = 1

\* whether the label of a given category is missing, empty or blank
BlankLabel(c) ==
    \/ c.label.kind = "missing"
    \/ \A n \in DOMAIN str(c.label) : str(c.label)[n] \in Whitespace

\* C12 as stated: for a category whose label is empty or blank no bone, no
\* label box and no rib is drawn.
C12_BlankLabelAbsent ==
    pc = "done" =>
        \A k \in DOMAIN GivenCats :
            (k <= 4 /\ BlankLabel(GivenCats[k])) =>
                /\ WhereOf("line", "bone", k) = {}
                /\ WhereOf("rect", "label", k) = {}
                /\ WhereOf("line", "rib", k) = {}

\* C12 amended: a category among the first 4 whose label is missing, empty
\* or blank is drawn like any other, under the label "unspecified": one
\* bone, one label box holding that label, and its ribs.
C12_BlankLabelUnspecified ==
    pc = "done" =>
        \A k \in DOMAIN GivenCats :
            (k <= 4 /\ BlankLabel(GivenCats[k])) =>
                /\ Cardinality(WhereOf("line", "bone", k)) = 1
                /\ Cardinality(WhereOf("rect", "label", k)) = 1
                /\ Cardinality(WhereOf("text", "label", k)) = 1
                /\ \A t \in WhereOf("text", "label", k) :
                       /\ Len(result.svg[t].tspans) = 1
                       /\ result.svg[t].tspans[1].text = UnspecifiedLabel
                /\ Cardinality(WhereOf("line", "rib", k))
                       = Min(Cardinality(NonBlank(GivenItems(GivenCats[k]))),
                             2)

\* a category with a blank label and an item, drawn with a bone and a rib
C12_Witness ==
    /\ pc = "done"
    /\ \E k \in DOMAIN GivenCats :
           /\ k <= 4
           /\ GivenCats[k].label.kind = "str"
           /\ GivenCats[k].label.val # <<>>
           /\ BlankLabel(GivenCats[k])
           /\ Cardinality(WhereOf("line", "bone", k)) = 1
           /\ Cardinality(WhereOf("line", "rib", k)) = 1

\* the text lines of the element at position t of the markup
LinesAt(t) ==
    [n \in DOMAIN result.svg[t].tspans |-> result.svg[t].tspans[n].text]

\* the lines a text shows once cut to max_lines lines of max_chars and
\* escaped
Shown(s, mc, ml) ==
    [n \in 1..Len(_wrap_by_chars(s, mc, ml)) |->
        html_escape(_wrap_by_chars(s, mc, ml)[n])]

\* the label a given category is drawn under
LabelOf(c) ==
    IF BlankLabel(c) THEN UnspecifiedLabel ELSE strip(str(c.label))

\* the first min(n, 4) given categories are drawn, in their order, each
\* under its own label, and nothing is drawn for a later one
FirstFourInOrder ==
    LET n == Min(Len(GivenCats), 4)
    IN  /\ \A k \in DOMAIN result.svg : result.svg[k].cat <= n
        /\ \A i \in 1..n :
               /\ Cardinality(WhereOf("line", "bone", i)) = 1
               /\ Cardinality(WhereOf("text", "label", i)) = 1
               /\ \A t \in WhereOf("text", "label", i) :
                      LinesAt(t) = Shown(LabelOf(GivenCats[i]), 28, 1)
        /\ \A t1, t2 \in Where("line", "bone") :
               t1 < t2 <=> result.svg[t1].cat < result.svg[t2].cat
        /\ \A t1, t2 \in Where("text", "label") :
               t1 < t2 <=> result.svg[t1].cat < result.svg[t2].cat

\* the ribs and the item texts of category i come in the order of their
\* item numbers
RibsInItemOrder(i) ==
    /\ \A t1, t2 \in WhereOf("line", "rib", i) :
           t1 < t2 <=> result.svg[t1].item < result.svg[t2].item
    /\ \A t1, t2 \in WhereOf("text", "item", i) :
           t1 < t2 <=> result.svg[t1].item < result.svg[t2].item

\* C13 as stated: the first 4 categories are kept in order, and of each
\* one's items list exactly the first 2 entries: every item text drawn is
\* the text of entry 1 or 2, there are as many ribs as entries 1 and 2 that
\* are not blank, and ribs come in the order of the items.
C13_FirstTwoEntries ==
    (pc = "done" /\ Len(GivenCats) >= 1) =>
        /\ FirstFourInOrder
        /\ \A i \in 1..Min(Len(GivenCats), 4) :
               LET items == GivenItems(GivenCats[i])
               IN  /\ Cardinality(WhereOf("line", "rib", i))
                          = Cardinality(NonBlank(items) \cap {1, 2})
                   /\ Cardinality(WhereOf("text", "item", i))
                          = Cardinality(NonBlank(items) \cap {1, 2})
                   /\ \A t \in WhereOf("text", "item", i) :
                          \E p \in DOMAIN items \cap {1, 2} :
                              LinesAt(t) = Shown(str(items[p]), 34, 2)
                   /\ RibsInItemOrder(i)

\* the position in items of its j-th entry that is not blank
NthNonBlank(items, j) ==
    CHOOSE p \in NonBlank(items) :
        Cardinality({q \in NonBlank(items) : q < p}) = j - 1

\* C13 amended: the first 4 categories are kept in order, and of each one's
\* items list exactly the first 2 entries that are not blank: rib j and
\* item text j belong to the j-th such entry, wherever it stands in the
\* list, and ribs come in the order of the items.
C13_FirstTwoNonBlank ==
    (pc = "done" /\ Len(GivenCats) >= 1) =>
        /\ FirstFourInOrder
        /\ \A i \in 1..Min(Len(GivenCats), 4) :
               LET items == GivenItems(GivenCats[i])
                   m     == Min(Cardinality(NonBlank(items)), 2)
               IN  /\ Cardinality(WhereOf("line", "rib", i)) = m
                   /\ Cardinality(WhereOf("text", "item", i)) = m
                   /\ \A j \in 1..m :
                          /\ \E t \in WhereOf("line", "rib", i) :
                                 result.svg[t].item = j
                          /\ \E t \in WhereOf("text", "item", i) :
                                 /\ result.svg[t].item = j
                                 /\ LinesAt(t)
                                        = Shown(str(items[NthNonBlank(items, j)]),
                                                34, 2)
                   /\ RibsInItemOrder(i)

\* a list of 3 entries, the first blank: the third entry is drawn as the
\* second rib, with a text that is not the second entry's
C13_Witness ==
    /\ pc = "done"
    /\ \E i \in DOMAIN GivenCats :
           LET items == GivenItems(GivenCats[i])
           IN  /\ i <= 4
               /\ Len(items) = 3
               /\ NonBlank(items) = {2, 3}
               /\ Cardinality(WhereOf("line", "rib", i)) = 2
               /\ \E t \in WhereOf("text", "item", i) :
                      /\ result.svg[t].item = 2
                      /\ LinesAt(t) = Shown(str(items[3]), 34, 2)
                      /\ LinesAt(t) # Shown(str(items[2]), 34, 2)

\* the positions of the bone and rib lines
BoneAndRibLines == Where("line", "bone") \cup Where("line", "rib")

\* the positions of the head box, the label and item boxes and the texts
BoxesAndTexts ==
    {k \in DOMAIN result.svg :
        \/ result.svg[k].tag = "text"
        \/ result.svg[k].tag = "rect" /\ result.svg[k].role # "background"}

\* C14: the markup starts with the background rectangle, the spine's circle
\* and the spine's line, in that order; then come all bone and rib lines;
\* the head box follows the last of them, and every box and every text
\* comes after every line.
C14_DrawOrder ==
    pc = "done" =>
        /\ ~result.raised
        /\ Where("rect", "background") = {1}
        /\ Where("circle", "spine") = {2}
        /\ Where("line", "spine") = {3}
        /\ BoneAndRibLines = 4..(3 + Cardinality(BoneAndRibLines))
        /\ Where("rect", "head") = {4 + Cardinality(BoneAndRibLines)}
        /\ \A k \in BoneAndRibLines : \A t \in BoxesAndTexts : k < t
        /\ \A k \in DOMAIN result.svg :
               result.svg[k].tag = "line" => \A t \in BoxesAndTexts : k < t

\* the full load: 12 bone and rib lines, then the head box, then 12 label
\* and item boxes
C14_Witness ==
    /\ pc = "done"
    /\ Cardinality(BoneAndRibLines) = 12
    /\ Where("rect", "head") = {16}
    /\ Cardinality(Where("rect", "label") \cup Where("rect", "item")) = 12
    /\ \A k \in Where("rect", "label") \cup Where("rect", "item") : k > 16

\* C15: no index is out of range (the call does not raise; every element
\* belongs to one of 4 categories and one of 2 items); the category at
\* index i gets the i-th anchor, (820, 280), (1250, 280), (920, 940),
\* (1350, 940): its bone starts on the spine at (anchor.x, 600), between
\* the spine's ends 180 and 1700, and ends at (anchor.x - 300, anchor.end_y).
C15_AnchorOfIndex ==
    pc = "done" =>
        /\ ~result.raised
        /\ \A k \in DOMAIN result.svg :
               /\ result.svg[k].cat \in 0..4
               /\ result.svg[k].item \in 0..2
        /\ \A i \in 1..Min(Len(GivenCats), 4) :
               Cardinality(WhereOf("line", "bone", i)) = 1
        /\ \A k \in Where("line", "bone") :
               LET b == result.svg[k]
               IN  /\ b.cat \in 1..4
                   /\ b.x1 = <<820, 1250, 920, 1350>>[b.cat] * Scale
                   /\ b.y1 = 600 * Scale
                   /\ 180 * Scale <= b.x1
                   /\ b.x1 <= 1700 * Scale
                   /\ b.x2 = b.x1 - 300 * Scale
                   /\ b.y2 = <<280, 280, 940, 940>>[b.cat] * Scale
                   /\ \A t \in Where("line", "spine") :
                          /\ result.svg[t].x1 <= b.x1
                          /\ b.x1 <= result.svg[t].x2
                          /\ result.svg[t].y1 = b.y1
                          /\ result.svg[t].y2 = b.y1

\* more categories than anchors, one of them with more items that are not
\* blank than rib positions: 4 bones, 2 ribs for that category
C15_Witness ==
    /\ pc = "done"
    /\ ~result.raised
    /\ Len(GivenCats) > 4
    /\ Cardinality(Where("line", "bone")) = 4
    /\ \E k \in 1..4 :
           /\ Cardinality(NonBlank(GivenItems(GivenCats[k]))) > 2
           /\ Cardinality(WhereOf("line", "rib", k)) = 2

\* the bone of category i, when one is drawn
BoneOf(i) == result.svg[CHOOSE k \in WhereOf("line", "bone", i) : TRUE]

\* whether a bone runs above the spine
Above(b) == b.y2 < b.y1

\* C16 as stated: the bones of every two consecutive categories i and
\* i + 1 lie on opposite sides of the spine, and the bone of i + 1 leaves
\* the spine at a larger x than the bone of i.
C16_AlternateAndAdvance ==
    pc = "done" =>
        \A i \in 1..3 :
            (WhereOf("line", "bone", i) # {}
                /\ WhereOf("line", "bone", i + 1) # {}) =>
                    /\ Above(BoneOf(i)) # Above(BoneOf(i + 1))
                    /\ BoneOf(i + 1).x1 > BoneOf(i).x1

\* C16 amended: categories 1 and 2 are drawn above the spine and 3 and 4
\* below it; on each side the later category leaves the spine at the
\* larger x; category 3 leaves the spine between categories 1 and 2, so
\* that along the spine the bones are those of 1, 3, 2, 4 and their sides
\* alternate.
C16_TwoAboveTwoBelow ==
    pc = "done" =>
        /\ \A i \in 1..4 :
               WhereOf("line", "bone", i) # {} =>
                   (Above(BoneOf(i)) <=> i <= 2)
        /\ \A i \in {1, 3} :
               (WhereOf("line", "bone", i) # {}
                   /\ WhereOf("line", "bone", i + 1) # {}) =>
                       BoneOf(i + 1).x1 > BoneOf(i).x1
        /\ (WhereOf("line", "bone", 2) # {}
               /\ WhereOf("line", "bone", 3) # {}) =>
                   /\ BoneOf(1).x1 < BoneOf(3).x1
                   /\ BoneOf(3).x1 < BoneOf(2).x1
        /\ WhereOf("line", "bone", 4) # {} =>
               BoneOf(2).x1 < BoneOf(4).x1

\* four bones: the second and the third on opposite sides, the third
\* leaving the spine left of the second
C16_Witness ==
    /\ pc = "done"
    /\ \A i \in 1..4 : WhereOf("line", "bone", i) # {}
    /\ Above(BoneOf(1)) /\ Above(BoneOf(2))
    /\ ~Above(BoneOf(3)) /\ ~Above(BoneOf(4))
    /\ BoneOf(3).x1 < BoneOf(2).x1

\* the positions of the head box, the label boxes and the item boxes
Boxes == Where("rect", "head") \cup Where("rect", "label")
             \cup Where("rect", "item")

\* whether two boxes have no point in common but, at most, their borders
Disjoint(a, b) ==
    \/ a.x + a.width <= b.x
    \/ b.x + b.width <= a.x
    \/ a.y + a.height <= b.y
    \/ b.y + b.height <= a.y

\* C17: the head box, the label boxes and the item boxes are pairwise
\* disjoint, for every input up to the full load.
C17_BoxesDisjoint ==
    pc = "done" =>
        \A s, t \in Boxes :
            s # t => Disjoint(result.svg[s], result.svg[t])

\* the full load: 4 label boxes and 8 item boxes, all of two lines
C17_Witness ==
    /\ pc = "done"
    /\ Cardinality(Where("rect", "head")) = 1
    /\ Cardinality(Where("rect", "label")) = 4
    /\ Cardinality(Where("rect", "item")) = 8
    /\ \A k \in Where("rect", "item") : result.svg[k].height = 76 * Scale
    /\ \A k \in Where("text", "item") : Len(result.svg[k].tspans) = 2

\* the greatest common divisor of two naturals (b when a = 0)
RECURSIVE Gcd(_, _)
Gcd(a, b) == IF a = 0 THEN b ELSE Gcd(b % a, a)

\* the direction of a line, reduced to lowest terms
Direction(l) ==
    LET Reduce(dx, dy, g) ==
            IF g = 0 THEN [dx |-> 0, dy |-> 0]
            ELSE [dx |-> (Abs(dx) \div g) * (IF dx < 0 THEN -1 ELSE 1),
                  dy |-> (Abs(dy) \div g) * (IF dy < 0 THEN -1 ELSE 1)]
    IN  Reduce(l.x2 - l.x1, l.y2 - l.y1,
               Gcd(Abs(l.x2 - l.x1), Abs(l.y2 - l.y1)))

\* on which side of the line l the point (x, y) lies: negative, zero (on
\* the line) or positive
Side(l, x, y) ==
    Direction(l).dx * (y - l.y1) - Direction(l).dy * (x - l.x1)

\* whether the segment l and the box r have a point in common: their
\* extents overlap in x and in y, and the corners of r are not all
\* strictly on one side of l
Hits(l, r) ==
    /\ Min(l.x1, l.x2) <= r.x + r.width
    /\ r.x <= Max(l.x1, l.x2)
    /\ Min(l.y1, l.y2) <= r.y + r.height
    /\ r.y <= Max(l.y1, l.y2)
    /\ LET corners == {<<r.x, r.y>>, <<r.x + r.width, r.y>>,
                       <<r.x, r.y + r.height>>,
                       <<r.x + r.width, r.y + r.height>>}
       IN  /\ \E c \in corners : Side(l, c[1], c[2]) <= 0
           /\ \E c \in corners : Side(l, c[1], c[2]) >= 0

\* the positions of all lines: the spine, the bones and the ribs
Lines == {k \in DOMAIN result.svg : result.svg[k].tag = "line"}

RibOf(i, j) ==
    result.svg[CHOOSE k \in WhereOf("line", "rib", i) :
                   result.svg[k].item = j]

\* C19: every item box lies beyond the end of its own rib: its right edge
\* is 10 pixels left of the rib's end, which is the rib's leftmost point,
\* and it is 6 pixels above the rib's end on a top bone and 6 pixels below
\* it on a bottom bone; so the box and its rib have no point in common.
C19_BoxBeyondRibEnd ==
    pc = "done" =>
        \A b \in Where("rect", "item") :
            LET box == result.svg[b]
                rib == RibOf(box.cat, box.item)
            IN  /\ Cardinality({k \in WhereOf("line", "rib", box.cat) :
                                   result.svg[k].item = box.item}) = 1
                /\ box.x + box.width < rib.x2
                /\ rib.x2 - (box.x + box.width) = 10 * Scale
                /\ rib.x2 < rib.x1
                /\ IF Above(BoneOf(box.cat))
                   THEN rib.y2 - (box.y + box.height) = 6 * Scale
                   ELSE box.y - rib.y2 = 6 * Scale
                /\ ~Hits(rib, box)

\* item boxes of one and of two lines, above and below the spine, each
\* with its rib
C19_Witness ==
    /\ pc = "done"
    /\ \E b1, b2 \in Where("rect", "item") :
           /\ Above(BoneOf(result.svg[b1].cat))
           /\ ~Above(BoneOf(result.svg[b2].cat))
           /\ result.svg[b1].height = 76 * Scale
           /\ result.svg[b2].height = 56 * Scale
           /\ result.svg[b1].x + result.svg[b1].width
                  < RibOf(result.svg[b1].cat, result.svg[b1].item).x2
           /\ result.svg[b2].y
                  > RibOf(result.svg[b2].cat, result.svg[b2].item).y2

\* C20: every rib starts on its bone, at 0.38 of the bone for the first
\* item and at 0.62 for the second; it runs 54 pixels along the bone's unit
\* direction (ux, uy) turned by 90 degrees, (-uy, ux), times -1 on a top
\* bone and +1 on a bottom bone; so the rib as drawn is perpendicular to
\* its bone (its dot product with the bone is zero up to the rounding of
\* the rib's end to a coordinate) and turns to the side the sign says.
C20_RibPerpendicular ==
    pc = "done" =>
        \A k \in Where("line", "rib") :
            LET Check(rib, bone) ==
                  LET Turned(s, ux, uy) ==
                        /\ 100 * (rib.x1 - bone.x1)
                               = <<38, 62>>[rib.item] * (bone.x2 - bone.x1)
                        /\ 100 * (rib.y1 - bone.y1)
                               = <<38, 62>>[rib.item] * (bone.y2 - bone.y1)
                        /\ rib.x2 - rib.x1
                               = RoundDiv(s * (-uy) * 54 * Scale, UnitScale)
                        /\ rib.y2 - rib.y1
                               = RoundDiv(s * ux * 54 * Scale, UnitScale)
                        /\ Abs((rib.x2 - rib.x1) * (bone.x2 - bone.x1)
                                 + (rib.y2 - rib.y1) * (bone.y2 - bone.y1))
                               <= Abs(bone.x2 - bone.x1)
                                      + Abs(bone.y2 - bone.y1)
                        /\ s * ((bone.x2 - bone.x1) * (rib.y2 - rib.y1)
                                  - (bone.y2 - bone.y1) * (rib.x2 - rib.x1))
                               > 0
                  IN  Turned(IF Above(bone) THEN -1 ELSE 1,
                             RoundDiv((bone.x2 - bone.x1) * UnitScale,
                                      Length(bone.x2 - bone.x1,
                                             bone.y2 - bone.y1)),
                             RoundDiv((bone.y2 - bone.y1) * UnitScale,
                                      Length(bone.x2 - bone.x1,
                                             bone.y2 - bone.y1)))
            IN  /\ result.svg[k].item \in {1, 2}
                /\ Check(result.svg[k], BoneOf(result.svg[k].cat))

\* ribs at both fractions, on a top bone and on a bottom bone, each
\* turned towards the spine
C20_Witness ==
    /\ pc = "done"
    /\ \E k1, k2 \in Where("line", "rib") :
           /\ Above(BoneOf(result.svg[k1].cat))
           /\ result.svg[k1].item = 2
           /\ result.svg[k1].y2 > result.svg[k1].y1
           /\ ~Above(BoneOf(result.svg[k2].cat))
           /\ result.svg[k2].item = 1
           /\ result.svg[k2].y2 < result.svg[k2].y1

\* C21: the far end of every rib is farther from the spine than its start
\* on the bone: higher (smaller y) on a top bone, lower (larger y) on a
\* bottom bone.
C21_RibsPointOutward ==
    pc = "done" =>
        \A k \in Where("line", "rib") :
            LET rib  == result.svg[k]
                bone == BoneOf(rib.cat)
            IN  IF Above(bone)
                THEN rib.y2 < rib.y1 /\ bone.y1 - rib.y2 > bone.y1 - rib.y1
                ELSE rib.y2 > rib.y1 /\ rib.y2 - bone.y1 > rib.y1 - bone.y1

\* the baseline of line n of a text element: its y and the dy of the
\* lines up to n
RECURSIVE Baseline(_, _)
Baseline(t, n) ==
    IF n = 1 THEN t.y + t.tspans[1].dy
    ELSE Baseline(t, n - 1) + t.tspans[n].dy

\* the positions of the boxes that hold the text element t
BoxesOf(t) ==
    CASE t.role = "label" -> WhereOf("rect", "label", t.cat)
      [] t.role = "item"  -> {k \in WhereOf("rect", "item", t.cat) :
                                 result.svg[k].item = t.item}
      [] t.role \in {"effect", "head_title"} -> Where("rect", "head")
      [] OTHER -> {}

\* C22: a label is drawn as exactly 1 line of at most 28 characters, an
\* item as 1 or 2 lines of at most 34, the effect as at most 8 lines of at
\* most 26 (characters counted before escaping); an item box is 56 high
\* for 1 line and 76 for 2; every label, item and effect text has exactly
\* one box, and the baseline of each of its lines lies between the top and
\* the bottom of that box, its start inside the box's width.
C22_TextInsideBox ==
    pc = "done" =>
        /\ \A k \in Where("text", "label") :
               /\ Len(result.svg[k].tspans) = 1
               /\ RawLength(result.svg[k].tspans[1].text) \in 1..28
        /\ \A k \in Where("text", "item") :
               /\ Len(result.svg[k].tspans) \in {1, 2}
               /\ \A n \in DOMAIN result.svg[k].tspans :
                      RawLength(result.svg[k].tspans[n].text) \in 1..34
               /\ \A b \in BoxesOf(result.svg[k]) :
                      result.svg[b].height
                          = IF Len(result.svg[k].tspans) = 1
                            THEN 56 * Scale ELSE 76 * Scale
        /\ \A k \in Where("text", "effect") :
               /\ Len(result.svg[k].tspans) \in 1..8
               /\ \A n \in DOMAIN result.svg[k].tspans :
                      RawLength(result.svg[k].tspans[n].text) \in 1..26
        /\ Cardinality(Where("text", "label"))
               = Cardinality(Where("rect", "label"))
        /\ \A k \in Where("text", "label") \cup Where("text", "item")
                       \cup Where("text", "effect")
                       \cup Where("text", "head_title") :
               /\ Cardinality(BoxesOf(result.svg[k])) = 1
               /\ \A b \in BoxesOf(result.svg[k]) :
                      /\ result.svg[b].x <= result.svg[k].x
                      /\ result.svg[k].x
                             <= result.svg[b].x + result.svg[b].width
                      /\ \A n \in DOMAIN result.svg[k].tspans :
                             /\ result.svg[b].y
                                    <= Baseline(result.svg[k], n)
                             /\ Baseline(result.svg[k], n)
                                    <= result.svg[b].y + result.svg[b].height

\* an effect of 8 lines, an item of 2 lines and an item of 1 line, each
\* cut or wrapped from a longer text
C22_Witness ==
    /\ pc = "done"
    /\ \E k \in Where("text", "effect") : Len(result.svg[k].tspans) = 8
    /\ \E k \in Where("text", "item") : Len(result.svg[k].tspans) = 2
    /\ \E k \in Where("text", "item") : Len(result.svg[k].tspans) = 1
    /\ \E k \in Where("text", "label") :
           RawLength(result.svg[k].tspans[1].text) = 28

\* C26: a blank item draws nothing: every rib has exactly one item box
\* and one item text of its category and item number, the text holding 1
\* or 2 lines that are not empty; every item box and item text has its
\* rib; a category has as many ribs as item boxes, and no more ribs than
\* items that are not blank.
C26_NoBlankGeometry ==
    pc = "done" =>
        /\ \A k \in Where("line", "rib") :
               LET Same(tag, role) ==
                       {t \in WhereOf(tag, role, result.svg[k].cat) :
                           result.svg[t].item = result.svg[k].item}
               IN  /\ Cardinality(Same("line", "rib")) = 1
                   /\ Cardinality(Same("rect", "item")) = 1
                   /\ Cardinality(Same("text", "item")) = 1
                   /\ \A t \in Same("text", "item") :
                          /\ Len(result.svg[t].tspans) >= 1
                          /\ \A n \in DOMAIN result.svg[t].tspans :
                                 result.svg[t].tspans[n].text # <<>>
        /\ \A i \in 0..4 :
               /\ Cardinality(WhereOf("line", "rib", i))
                      = Cardinality(WhereOf("rect", "item", i))
               /\ Cardinality(WhereOf("line", "rib", i))
                      = Cardinality(WhereOf("text", "item", i))
        /\ \A i \in DOMAIN GivenCats :
               i <= 4 =>
                   Cardinality(WhereOf("line", "rib", i))
                       <= Cardinality(NonBlank(GivenItems(GivenCats[i])))
        /\ GivenCats = <<>> => Where("line", "rib") = {}

\* a list of 3 items, the first and the last blank: 1 rib, 1 item box
C26_Witness ==
    /\ pc = "done"
    /\ \E i \in DOMAIN GivenCats :
           /\ i <= 4
           /\ Len(GivenItems(GivenCats[i])) = 3
           /\ NonBlank(GivenItems(GivenCats[i])) = {2}
           /\ Cardinality(WhereOf("line", "rib", i)) = 1
           /\ Cardinality(WhereOf("rect", "item", i)) = 1

\* C25: the call leaves its arguments as they were: the caller's
\* categories list has the same entries in the same order, each with the
\* same label and the same items, and the effect is the same; the capped,
\* trimmed and padded categories are in the last list the call made, which
\* is not the caller's.
C25_ArgumentsUnchanged ==
    [][pc = "build" =>
          /\ categories' = categories
          /\ effect' = effect
          /\ Len(HeapAfter(categories)) > 1
          /\ HeapAfter(categories)[Len(HeapAfter(categories))]
                 = Normalize(categories)]_vars

\* a call that had to cut the categories list, to replace a blank label
\* and to trim an item, with the list as long after the call as before
C25_Witness ==
    /\ pc = "done"
    /\ ~result.raised
    /\ Len(GivenCats) > 4
    /\ \E k \in 1..4 : BlankLabel(GivenCats[k])
    /\ \E k \in 1..4 :
           \E j \in DOMAIN GivenItems(GivenCats[k]) :
               str(GivenItems(GivenCats[k])[j])
                   # strip(str(GivenItems(GivenCats[k])[j]))
    /\ Cardinality(Where("line", "bone")) = 4

----------------------------------------------------------------------------
(* Properties of the entry form, checked under SpecForm.                   *)

ResetFlag(ss) == Get(ss["_reset_form_after_save"], PyFalse) = PyTrue

\* the form fields, the stored AI results and the flag are the same in both
Kept(ss, tt) ==
    \A k \in FormKeys \cup ResultKeys \cup
             {"form_rca_image", "_reset_form_after_save"} : tt[k] = ss[k]

\* every form field holds its default, no image is attached and no AI
\* result is stored
Cleared(ss) ==
    /\ \A k \in FormKeys \cup ResultKeys : ss[k] = FormDefaults[k]
    /\ ss["form_rca_image"] = PyMissing

\* the resets still to come: one when the flag is set, or when the row has
\* just been appended and the request of line 1330 is the next step
Owed(ss, r) == IF ResetFlag(ss) \/ r.at = "request" THEN 1 ELSE 0

\* C27: over any sequence of runs of render_entry_tab, the reset flag is set
\* only in a run in which append_record_to_sheet has returned; every step of
\* a run of the save button other than that one, so every attempt that fails
\* validation or raises, leaves the form fields, the stored AI results and
\* the flag as they were; a run that starts with the flag set clears the
\* form fields and the AI results and sets the flag back to False before it
\* creates a widget, and no widget is created while the flag is set; the
\* resets applied, plus the one still to come once a row has been appended,
\* are as many as the rows saved.
C27_ResetAfterSave ==
    [][/\ (ResetFlag(session_state') /\ ~ResetFlag(session_state)) =>
              (run.appended /\ sheet' = sheet)
       /\ (run.button = "save" /\ run.at \notin {"request", "idle"}) =>
              Kept(session_state, session_state')
       /\ (run.at = "start" /\ ResetFlag(session_state)) =>
              /\ ~run.widgets /\ ~run'.widgets
              /\ Cleared(session_state')
              /\ ~ResetFlag(session_state')
              /\ resets' = resets + 1
       /\ (run'.widgets /\ ~run.widgets) => ~ResetFlag(session_state)
       /\ ResetFlag(session_state) => run.at \in {"rerun", "start"}
       /\ resets' # resets => ResetFlag(session_state)
       /\ sheet = resets + Owed(session_state, run)
       /\ sheet' = resets' + Owed(session_state', run')
      ]_vars

\* one row was saved, the reset was applied once and the run that applied
\* it has drawn the cleared form and ended
C27_Witness ==
    /\ pc = "form"
    /\ sheet = 1
    /\ resets = 1
    /\ run.at = "idle"
    /\ ~ResetFlag(session_state)
    /\ \A k \in FormKeys \cup ResultKeys : session_state[k] = FormDefaults[k]
    /\ session_state["form_rca_image"] = PyNone

====
